---- MODULE Spec2Model ----
(***************************************************************************)
(* Model of src/main.py: the Meta Ads daily report.                        *)
(*                                                                         *)
(* Representation.  A Python dict is a function whose DOMAIN is the set of *)
(* keys that are present, so d[k] on an absent key is a KeyError and       *)
(* d.get(k, default) is Get(d, k, default).  Identifiers and names are     *)
(* strings.  Decimal quantities (spend, action values, conversion_value,   *)
(* cpa, roas, ctr, cpm) are fixed-point numbers held in hundredths, so     *)
(* "1.50" is 150; counts (impressions, clicks, conversions) are integers.  *)
(* None is the string "None".                                              *)
(***************************************************************************)
EXTENDS Integers, Sequences, FiniteSets, TLC

VARIABLES
    pc,          \* position of the running procedure
    accounts,    \* main: list returned by get_facebook_ads_account
    acc_i,       \* main: index of the account the for loop is at
    page,        \* get_ad_creative_insights: number of the page being requested
    all_rows,    \* get_ad_creative_insights: rows accumulated so far
    responses,   \* history: the page responses received for the current account
    insights,    \* the insight records handed to process_creative_data
    creatives,   \* the creative lookup handed to process_creative_data
    data,        \* result of process_creative_data: [exc, rows]
    saved,       \* result of the last save_to_csv call: [ret, exc]
    csv_files,   \* main: paths appended after a successful save_to_csv
    fs,          \* the file system: path -> rows of the file
    sent,        \* the file lists handed to send_email_with_attachments
    exc,         \* exception that escaped the running procedure, or "none"
    visited,     \* history: indices of the accounts main has fetched
    exported     \* history: results of the save_to_csv calls main made

vars == <<pc, accounts, acc_i, page, all_rows, responses, insights, creatives,
          data, saved, csv_files, fs, sent, exc, visited, exported>>

-----------------------------------------------------------------------------
(* Bounds of the model *)

MaxInsights == 3     \* longest insight list handed to process_creative_data
MaxActions  == 2     \* longest actions / action_values list of one insight
MaxAccounts == 2     \* most accounts get_facebook_ads_account returns
MaxPages    == 2     \* most pages one insights fetch walks through

-----------------------------------------------------------------------------
(* Python dict and number helpers *)

None == "None"

EmptyDict == [k \in {} |-> None]

Get(d, k, default) == IF k \in DOMAIN d THEN d[k] ELSE default

Without(d, k) == [x \in DOMAIN d \ {k} |-> d[x]]

\* int(float(s)): truncation of a non-negative decimal string to an integer
IntOfFloat(v) == v \div 100

\* a / b for the floats a and b; the division raises when b is zero
TrueDiv(a, b) == [zde |-> b = 0, num |-> a, den |-> b]

\* the int literal 0 of "... else 0"
Zero == [zde |-> FALSE, num |-> 0, den |-> 1]

\* round(x, 2) of a non-negative x = num/den (in hundredths): the nearest
\* integer number of hundredths, a tie going to the even one
Round2(x) ==
    LET q == x.num \div x.den
        r == x.num % x.den
    IN  IF 2 * r < x.den THEN q
        ELSE IF 2 * r > x.den THEN q + 1
        ELSE IF q % 2 = 0 THEN q ELSE q + 1

-----------------------------------------------------------------------------
(* calculate_metrics *)

conv_types_with_view ==
    {"purchase", "lead", "complete_registration", "add_to_cart", "initiate_checkout",
     "view_content"}

conv_types ==
    {"purchase", "lead", "complete_registration", "add_to_cart", "initiate_checkout"}

IsConversion(a) == Get(a, "action_type", None) \in conv_types

\* the loop "for a in actions" over the first n entries
RECURSIVE SumConversions(_, _)
SumConversions(actions, n) ==
    IF n = 0 THEN 0
    ELSE SumConversions(actions, n - 1)
         + (IF IsConversion(actions[n])
            THEN IntOfFloat(Get(actions[n], "value", 0)) ELSE 0)

\* the loop "for v in values" over the first n entries
RECURSIVE SumConvValue(_, _)
SumConvValue(values, n) ==
    IF n = 0 THEN 0
    ELSE SumConvValue(values, n - 1)
         + (IF IsConversion(values[n]) THEN Get(values[n], "value", 0) ELSE 0)

CpaGuard(spend, conversions) == conversions # 0

RoasGuard(spend, conv_value) == spend # 0

calculate_metrics(insight) ==
    LET spend       == Get(insight, "spend", 0)
        actions     == Get(insight, "actions", <<>>)
        values      == Get(insight, "action_values", <<>>)
        conversions == SumConversions(actions, Len(actions))
        conv_value  == SumConvValue(values, Len(values))
        cpa  == IF CpaGuard(spend, conversions)
                THEN TrueDiv(spend, conversions) ELSE Zero
        roas == IF RoasGuard(spend, conv_value)
                THEN TrueDiv(100 * conv_value, spend) ELSE Zero
    IN  IF cpa.zde \/ roas.zde
        THEN [exc |-> "ZeroDivisionError"]
        ELSE [exc         |-> "none",
              conversions |-> conversions,
              conv_value  |-> conv_value,
              cpa         |-> Round2(cpa),
              roas        |-> Round2(roas)]

-----------------------------------------------------------------------------
(* process_creative_data *)

\* the keys the loop body reads with ins[...]
RequiredKeys ==
    {"date_start", "campaign_id", "campaign_name", "adset_id", "adset_name", "ad_name"}

creative_type_image_first(c) ==
    IF Get(c, "has_image", FALSE) THEN "Image"
    ELSE IF Get(c, "has_video", FALSE) THEN "Video"
    ELSE "Unknown"

creative_type(c) ==
    IF Get(c, "has_video", FALSE) THEN "Video"
    ELSE IF Get(c, "has_image", FALSE) THEN "Image"
    ELSE "Unknown"

RateGuardOnClicks(impr, clicks, spend) == clicks # 0

RateGuard(impr, clicks, spend) == impr # 0

\* one pass of the loop body: the row built from one insight, or the exception
BuildRow(ins, creative_details) ==
    IF "ad_id" \notin DOMAIN ins THEN [exc |-> "KeyError"]
    ELSE
    LET ad_id  == ins["ad_id"]
        c      == Get(creative_details, ad_id, EmptyDict)
        m      == calculate_metrics(ins)
        impr   == Get(ins, "impressions", 0)
        clicks == Get(ins, "clicks", 0)
        spend  == Get(ins, "spend", 0)
        ctr    == IF RateGuard(impr, clicks, spend)
                  THEN TrueDiv(10000 * clicks, impr) ELSE Zero
        cpm    == IF RateGuard(impr, clicks, spend)
                  THEN TrueDiv(1000 * spend, impr) ELSE Zero
    IN  IF m.exc # "none" THEN [exc |-> m.exc]
        ELSE IF ctr.zde \/ cpm.zde THEN [exc |-> "ZeroDivisionError"]
        ELSE IF ~(RequiredKeys \subseteq DOMAIN ins) THEN [exc |-> "KeyError"]
        ELSE [exc |-> "none",
              row |-> [date             |-> ins["date_start"],
                       campaign_id      |-> ins["campaign_id"],
                       campaign_name    |-> ins["campaign_name"],
                       adset_id         |-> ins["adset_id"],
                       adset_name       |-> ins["adset_name"],
                       ad_id            |-> ad_id,
                       ad_name          |-> ins["ad_name"],
                       creative_id      |-> Get(c, "creative_id", None),
                       creative_name    |-> Get(c, "creative_name", None),
                       creative_type    |-> creative_type(c),
                       image_hash       |-> Get(c, "image_hash", None),
                       video_id         |-> Get(c, "video_id", None),
                       spend            |-> spend,
                       impressions      |-> impr,
                       clicks           |-> clicks,
                       conversions      |-> m.conversions,
                       conversion_value |-> m.conv_value,
                       cpa              |-> m.cpa,
                       roas             |-> m.roas,
                       ctr              |-> Round2(ctr),
                       cpm              |-> Round2(cpm)]]

\* the loop "for ins in insights" over the first n records
RECURSIVE ProcessLoop(_, _, _)
ProcessLoop(ins_list, creative_details, n) ==
    IF n = 0 THEN [exc |-> "none", rows |-> <<>>]
    ELSE LET prev == ProcessLoop(ins_list, creative_details, n - 1)
         IN  IF prev.exc # "none" THEN prev
             ELSE LET r == BuildRow(ins_list[n], creative_details)
                  IN  IF r.exc # "none"
                      THEN [exc |-> r.exc, rows |-> <<>>]
                      ELSE [exc |-> "none", rows |-> Append(prev.rows, r.row)]

process_creative_data(ins_list, creative_details) ==
    ProcessLoop(ins_list, creative_details, Len(ins_list))

-----------------------------------------------------------------------------
(* save_to_csv *)

IndexOrders(n) ==
    {p \in [1..n -> 1..n] : \A i, j \in 1..n : i # j => p[i] # p[j]}

InAscendingOrder(rows, p) ==
    \A i, j \in 1..Len(rows) : i < j => rows[p[i]].spend <= rows[p[j]].spend

\* Is the frame rows[p[1]], rows[p[2]], ... in the order sort_values asks for
InSortOrder(rows, p) ==
    \A i, j \in 1..Len(rows) : i < j => rows[p[i]].spend >= rows[p[j]].spend

\* pd.DataFrame(rows).sort_values("spend", ascending=False).  No kind= is
\* given, so pandas sorts with its default "quicksort", which promises no
\* order among rows of equal spend: every order of the ties is a possible
\* result.
sort_values(rows) ==
    {[i \in 1..Len(rows) |-> rows[p[i]]] :
        p \in {q \in IndexOrders(Len(rows)) : InSortOrder(rows, q)}}

WriteFile(files, path, content) ==
    [f \in DOMAIN files \cup {path} |-> IF f = path THEN content ELSE files[f]]

\* df.to_csv(path, index=False): the file holds the frame's rows, or the
\* write raises OSError, leaving the file untouched or created and truncated
to_csv(df, path, files) ==
    {[exc |-> "none", fs |-> WriteFile(files, path, df)],
     [exc |-> "OSError", fs |-> files],
     [exc |-> "OSError", fs |-> WriteFile(files, path, <<>>)]}

NoEmptyGuard(rows) == FALSE

EmptyGuard(rows) == rows = <<>>

\* the possible outcomes of save_to_csv(rows, path) on the file system files
save_to_csv(rows, path, files) ==
    IF EmptyGuard(rows)
    THEN {[ret |-> FALSE, exc |-> "none", fs |-> files]}
    ELSE {[ret |-> w.exc = "none", exc |-> w.exc, fs |-> w.fs] :
            w \in UNION {to_csv(df, path, files) : df \in sort_values(rows)}}

\* f"meta_ads_data_{acc_id}_{ts}.csv"
FileName(acc_id) == <<"meta_ads_data", acc_id, "csv">>

-----------------------------------------------------------------------------
(* Inputs of the functions *)

AdIds == {"a1", "a2"}

Insight(ad_id, impressions, clicks, spend, actions, action_values) ==
    [ad_id         |-> ad_id,
     date_start    |-> "2024-01-01",
     campaign_id   |-> "c1",
     campaign_name |-> "campaign",
     adset_id      |-> "s1",
     adset_name    |-> "adset",
     ad_name       |-> "ad",
     impressions   |-> impressions,
     clicks        |-> clicks,
     spend         |-> spend,
     actions       |-> actions,
     action_values |-> action_values]

InsightKeys == DOMAIN Insight("a1", 0, 0, 0, <<>>, <<>>)

ActionTypes == conv_types \cup {"view_content"}

\* entries of actions / action_values: "2.5" for every type, purchase "3",
\* view_content "10", one entry without a value and one without an action_type
ActionEntries ==
    {[action_type |-> t, value |-> 250] : t \in ActionTypes}
    \cup {[action_type |-> "purchase", value |-> 300],
          [action_type |-> "view_content", value |-> 1000],
          [action_type |-> "purchase"],
          [value |-> 300]}

SeqsUpTo(S, n) == UNION {[1..k -> S] : k \in 0..n}

ActionLists == SeqsUpTo(ActionEntries, MaxActions)

Purchase(v) == <<[action_type |-> "purchase", value |-> v]>>

\* records whose actions vary, and records whose action_values vary
ActionPool ==
    {Insight("a1", 1000, 20, s, a, Purchase(15000)) : s \in {0, 5000}, a \in ActionLists}
    \cup
    {Insight("a1", 1000, 20, s, Purchase(200), v) : s \in {0, 5000}, v \in ActionLists}

\* records whose impressions, clicks and spend vary
RatioPool ==
    {Insight("a1", i, c, s, a, a) :
        i \in {0, 3, 1000}, c \in {0, 1, 20}, s \in {0, 1, 5000},
        a \in {<<>>, Purchase(200)}}

\* records that lack one key, and the record that lacks them all
MissingPool ==
    {Without(Insight("a1", 1000, 20, 5000, Purchase(200), Purchase(15000)), k) :
        k \in InsightKeys}
    \cup {EmptyDict}

\* records of the lists: two ads, equal and different spends, one without ad_id
ListPool ==
    {Insight(a, 1000, 20, s, <<>>, <<>>) : a \in AdIds, s \in {0, 5000}}
    \cup {Without(Insight("a1", 1000, 20, 5000, <<>>, <<>>), "ad_id")}

\* what get_ad_creatives_details stores for one ad
CreativeMeta(video_id, image_hash) ==
    [creative_id   |-> "cr1",
     creative_name |-> "creative",
     image_hash    |-> image_hash,
     video_id      |-> video_id,
     thumbnail_url |-> None,
     has_video     |-> video_id # None,
     has_image     |-> image_hash # None]

CreativeMetas == {CreativeMeta(v, h) : v \in {None, "v1"}, h \in {None, "h1"}}

Lookups(ads) == UNION {[S -> CreativeMetas] : S \in SUBSET ads}

CorePath == FileName("core")

OldFile == <<Insight("a2", 0, 0, 0, <<>>, <<>>)>>

-----------------------------------------------------------------------------
(* The functions applied to their inputs *)

NoData == [exc |-> "none", rows |-> <<>>]

NoSave == [ret |-> FALSE, exc |-> "none"]

InitCore ==
    /\ pc = "input"
    /\ \/ insights \in SeqsUpTo(ListPool, MaxInsights) /\ creatives \in Lookups(AdIds)
       \/ /\ insights \in {<<r>> : r \in ActionPool \cup RatioPool \cup MissingPool}
          /\ creatives = EmptyDict
    /\ fs \in {EmptyDict, WriteFile(EmptyDict, CorePath, OldFile)}
    /\ data = NoData
    /\ saved = NoSave
    /\ exc = "none"
    /\ accounts = <<>> /\ acc_i = 0 /\ page = 0 /\ all_rows = <<>>
    /\ responses = <<>> /\ csv_files = <<>> /\ sent = <<>>
    /\ visited = {} /\ exported = <<>>

\* data = process_creative_data(insights, creatives)
CallProcessCreativeData ==
    /\ pc = "input"
    /\ data' = process_creative_data(insights, creatives)
    /\ exc' = data'.exc
    /\ pc' = IF data'.exc = "none" THEN "processed" ELSE "raised"
    /\ UNCHANGED <<accounts, acc_i, page, all_rows, responses, insights, creatives,
                   saved, csv_files, fs, sent, visited, exported>>

\* save_to_csv(data, path)
CallSaveToCsv ==
    /\ pc = "processed"
    /\ \E o \in save_to_csv(data.rows, CorePath, fs) :
          /\ saved' = [ret |-> o.ret, exc |-> o.exc]
          /\ fs' = o.fs
          /\ exc' = o.exc
          /\ pc' = IF o.exc = "none" THEN "saved" ELSE "raised"
    /\ UNCHANGED <<accounts, acc_i, page, all_rows, responses, insights, creatives,
                   data, csv_files, sent, visited, exported>>

NextCore == CallProcessCreativeData \/ CallSaveToCsv

SpecCore == InitCore /\ [][NextCore]_vars

-----------------------------------------------------------------------------
(* get_ad_creative_insights: one pass of the "while True" loop *)

\* what one requests.get of the loop can produce: the request raises
\* (raise_for_status, a timeout, r.json()), the body carries "error", or it
\* carries data, with or without paging.next
RaiseResponse == [kind |-> "raise", data |-> <<>>, next |-> FALSE]

ErrorResponse == [kind |-> "error", data |-> <<>>, next |-> FALSE]

DataResponse(rows, next) == [kind |-> "data", data |-> rows, next |-> next]

FetchStepKeepsRows(rows, resp) ==
    IF resp.kind \in {"raise", "error"}
    THEN [returns |-> TRUE, all_rows |-> rows, result |-> rows]
    ELSE IF ~resp.next
    THEN [returns |-> TRUE, all_rows |-> rows \o resp.data, result |-> rows \o resp.data]
    ELSE [returns |-> FALSE, all_rows |-> rows \o resp.data, result |-> <<>>]

\* the pass that receives resp with rows accumulated: whether the function
\* returns after it, the accumulated rows and what is returned
FetchStep(rows, resp) ==
    IF resp.kind = "raise"
    THEN [returns |-> TRUE, all_rows |-> rows, result |-> <<>>]
    ELSE IF resp.kind = "error"
    THEN [returns |-> TRUE, all_rows |-> rows, result |-> rows]
    ELSE IF ~resp.next
    THEN [returns |-> TRUE, all_rows |-> rows \o resp.data, result |-> rows \o resp.data]
    ELSE [returns |-> FALSE, all_rows |-> rows \o resp.data, result |-> <<>>]

-----------------------------------------------------------------------------
(* main *)

\* the records the insights API serves to main: well-formed, one per ad
MainPool ==
    {Insight("a1", 1000, 20, 100, <<>>, <<>>), Insight("a2", 1000, 20, 5000, <<>>, <<>>)}

PageRows == SeqsUpTo(MainPool, 1)

\* the responses to the request for page p; the API serves MaxPages pages
PageResponses(p) ==
    {RaiseResponse, ErrorResponse}
    \cup {DataResponse(d, n) : d \in PageRows, n \in {b \in BOOLEAN : b => p < MaxPages}}

\* what get_ad_creatives_details can return for ad_ids: a failed batch and an
\* ad without "creative" leave ads out
MainLookups(ad_ids) == UNION {[S -> {CreativeMeta("v1", None)}] : S \in SUBSET ad_ids}

Account(i) == [account_id |-> i, name |-> "account"]

InitMain ==
    /\ pc = "start"
    /\ accounts = <<>> /\ acc_i = 0 /\ page = 0 /\ all_rows = <<>>
    /\ responses = <<>> /\ insights = <<>> /\ creatives = EmptyDict
    /\ data = NoData /\ saved = NoSave /\ csv_files = <<>>
    /\ fs = EmptyDict /\ sent = <<>> /\ exc = "none"
    /\ visited = {} /\ exported = <<>>

\* csv_files = []; the accounts get_facebook_ads_account returns ([] when it fails)
GetAccounts ==
    /\ pc = "start"
    /\ \E n \in 0..MaxAccounts : accounts' = [i \in 1..n |-> Account(i)]
    /\ acc_i' = 1
    /\ pc' = "for"
    /\ UNCHANGED <<page, all_rows, responses, insights, creatives, data, saved,
                   csv_files, fs, sent, exc, visited, exported>>

\* "for acc in ...": the next account and the start of its insights fetch, or
\* the end of the loop.  insights, creatives and data of the previous pass
\* are assigned again before they are read: the pass starts without them.
ForAccount ==
    /\ pc = "for"
    /\ IF acc_i <= Len(accounts)
       THEN /\ visited' = visited \cup {acc_i}
            /\ page' = 1
            /\ pc' = "fetch"
       ELSE /\ pc' = "email"
            /\ UNCHANGED <<page, visited>>
    /\ all_rows' = <<>>
    /\ responses' = <<>>
    /\ insights' = <<>>
    /\ creatives' = EmptyDict
    /\ data' = NoData
    /\ saved' = NoSave
    /\ UNCHANGED <<accounts, acc_i, csv_files, fs, sent, exc, exported>>

\* one pass of the loop of get_ad_creative_insights
FetchPage ==
    /\ pc = "fetch"
    /\ \E resp \in PageResponses(page) :
          LET step == FetchStep(all_rows, resp)
          IN  /\ responses' = Append(responses, resp)
              /\ all_rows' = step.all_rows
              /\ IF step.returns
                 THEN insights' = step.result /\ pc' = "check" /\ page' = page
                 ELSE insights' = insights /\ pc' = "fetch" /\ page' = page + 1
    /\ UNCHANGED <<accounts, acc_i, creatives, data, saved, csv_files, fs, sent,
                   exc, visited, exported>>

\* "if not insights: continue"
SkipAccount ==
    /\ pc = "check"
    /\ insights = <<>>
    /\ acc_i' = acc_i + 1
    /\ pc' = "for"
    /\ UNCHANGED <<accounts, page, all_rows, responses, insights, creatives, data,
                   saved, csv_files, fs, sent, exc, visited, exported>>

\* ad_ids, get_ad_creatives_details and process_creative_data
BuildReport ==
    /\ pc = "check"
    /\ insights # <<>>
    /\ IF \E k \in 1..Len(insights) : "ad_id" \notin DOMAIN insights[k]
       THEN /\ exc' = "KeyError"
            /\ pc' = "crashed"
            /\ UNCHANGED <<creatives, data>>
       ELSE \E c \in MainLookups({insights[k]["ad_id"] : k \in 1..Len(insights)}) :
               /\ creatives' = c
               /\ data' = process_creative_data(insights, c)
               /\ exc' = data'.exc
               /\ pc' = IF data'.exc = "none" THEN "save" ELSE "crashed"
    /\ UNCHANGED <<accounts, acc_i, page, all_rows, responses, insights, saved,
                   csv_files, fs, sent, visited, exported>>

\* "if save_to_csv(data, file): csv_files.append(file)"
ExportReport ==
    /\ pc = "save"
    /\ LET file == FileName(accounts[acc_i].account_id)
       IN  \E o \in save_to_csv(data.rows, file, fs) :
              /\ saved' = [ret |-> o.ret, exc |-> o.exc]
              /\ fs' = o.fs
              /\ exported' = Append(exported, [path |-> file, ret |-> o.ret, exc |-> o.exc])
              /\ exc' = o.exc
              /\ IF o.exc # "none"
                 THEN pc' = "crashed" /\ UNCHANGED <<csv_files, acc_i>>
                 ELSE /\ csv_files' = IF o.ret THEN Append(csv_files, file) ELSE csv_files
                      /\ acc_i' = acc_i + 1
                      /\ pc' = "for"
    /\ UNCHANGED <<accounts, page, all_rows, responses, insights, creatives, data,
                   sent, visited>>

\* "if csv_files: send_email_with_attachments(...)", which raises when the
\* send fails; else "Nothing to e-mail"
SendEmail ==
    /\ pc = "email"
    /\ IF csv_files # <<>>
       THEN /\ sent' = Append(sent, csv_files)
            /\ \E ok \in BOOLEAN :
                  /\ exc' = IF ok THEN "none" ELSE "SMTPException"
                  /\ pc' = IF ok THEN "done" ELSE "crashed"
       ELSE /\ pc' = "done"
            /\ UNCHANGED <<sent, exc>>
    /\ UNCHANGED <<accounts, acc_i, page, all_rows, responses, insights, creatives,
                   data, saved, csv_files, fs, visited, exported>>

Next ==
    \/ GetAccounts
    \/ ForAccount
    \/ FetchPage
    \/ SkipAccount
    \/ BuildReport
    \/ ExportReport
    \/ SendEmail

Spec == InitMain /\ [][Next]_vars

-----------------------------------------------------------------------------
(* Properties of the functions, under SpecCore *)

Processed == pc \in {"processed", "saved"} \/ (pc = "raised" /\ saved.exc # "none")

Count(s, x) == Cardinality({i \in DOMAIN s : s[i] = x})

IsPermutationOf(s, t) ==
    /\ Len(s) = Len(t)
    /\ \A i \in DOMAIN t : Count(s, t[i]) = Count(t, t[i])

SpendDescending(R) == \A i, j \in DOMAIN R : i < j => R[i].spend >= R[j].spend

Abs(x) == IF x < 0 THEN -x ELSE x

\* r is num/den rounded to the nearest integer
IsNearest(r, num, den) == 2 * Abs(r * den - num) <= den

RECURSIVE SumOver(_, _, _)
SumOver(s, F(_), n) == IF n = 0 THEN 0 ELSE SumOver(s, F, n - 1) + F(s[n])

\* C2: for every non-empty list of rows passed to save_to_csv, the rows of
\* the written file are ordered by spend descending and are a permutation of
\* the rows passed in.
C2_SortedPermutation ==
    (pc = "saved" /\ data.rows # <<>>) =>
        /\ saved.ret
        /\ CorePath \in DOMAIN fs
        /\ SpendDescending(fs[CorePath])
        /\ IsPermutationOf(fs[CorePath], data.rows)

\* three rows, not in spend order and with a tie, have been written
C2_Witness ==
    /\ pc = "saved"
    /\ Len(data.rows) = 3
    /\ data.rows[1].spend < data.rows[2].spend
    /\ data.rows[2].spend = data.rows[3].spend
    /\ fs[CorePath] # data.rows

\* C3: the sort of save_to_csv is stable: rows of equal spend are written in
\* the relative order in which process_creative_data produced them, that is,
\* at every spend the written rows of that spend are the input rows of that
\* spend, in the same order.
C3_StableSort ==
    (pc = "saved" /\ data.rows # <<>>) =>
        \A k \in DOMAIN data.rows :
            LET AtSpend(r) == r.spend = data.rows[k].spend
            IN  SelectSeq(fs[CorePath], AtSpend) = SelectSeq(data.rows, AtSpend)

\* C4: no exception escapes process_creative_data, and one row is emitted
\* for every insight record, whichever keys the record lacks.
C4_NoExceptionEscapes ==
    Processed \/ pc = "raised" =>
        /\ data.exc = "none"
        /\ Len(data.rows) = Len(insights)

\* C6: save_to_csv called with zero rows returns False, raises nothing and
\* leaves every file as it was; an empty insight list gives an empty row list.
C6_EmptyIsNoOp ==
    /\ [][(pc = "processed" /\ data.rows = <<>>) =>
             (fs' = fs /\ saved' = [ret |-> FALSE, exc |-> "none"] /\ pc' = "saved")]_vars
    /\ []((pc # "input" /\ insights = <<>>) => data = [exc |-> "none", rows |-> <<>>])

\* zero rows were exported where a file already stood at the path
C6_Witness ==
    /\ pc = "saved"
    /\ insights = <<>>
    /\ data.rows = <<>>
    /\ ~saved.ret
    /\ CorePath \in DOMAIN fs

\* the value of an entry counted in conversions: its integer part
EntryCount(a) ==
    IF "action_type" \in DOMAIN a /\ "value" \in DOMAIN a
       /\ a.action_type \in {"purchase", "lead", "complete_registration",
                             "add_to_cart", "initiate_checkout"}
    THEN CHOOSE t \in 0..a.value : 100 * t <= a.value /\ a.value < 100 * (t + 1)
    ELSE 0

\* the value of an entry counted in conversion_value
EntryValue(a) ==
    IF "action_type" \in DOMAIN a /\ "value" \in DOMAIN a
       /\ a.action_type \in {"purchase", "lead", "complete_registration",
                             "add_to_cart", "initiate_checkout"}
    THEN a.value
    ELSE 0

\* C7: conversions is the sum of the integer-truncated values of exactly the
\* actions entries whose action_type is one of purchase, lead,
\* complete_registration, add_to_cart, initiate_checkout, and
\* conversion_value is the sum of the values of exactly those action_values
\* entries; actions [purchase 3, view_content 10] give conversions = 3.
C7_ConversionSums ==
    (Processed /\ data.exc = "none") =>
        \A k \in DOMAIN data.rows :
            LET acts == Get(insights[k], "actions", <<>>)
                vals == Get(insights[k], "action_values", <<>>)
            IN  /\ data.rows[k].conversions = SumOver(acts, EntryCount, Len(acts))
                /\ data.rows[k].conversion_value = SumOver(vals, EntryValue, Len(vals))
                /\ acts = <<[action_type |-> "purchase", value |-> 300],
                            [action_type |-> "view_content", value |-> 1000]>>
                      => data.rows[k].conversions = 3

\* a conversion of "2.5" and an entry of another type have been summed
C7_Witness ==
    /\ pc = "processed"
    /\ Len(insights) = 1
    /\ "actions" \in DOMAIN insights[1]
    /\ insights[1].actions = <<[action_type |-> "lead", value |-> 250],
                               [action_type |-> "view_content", value |-> 1000]>>
    /\ data.rows[1].conversions = 2

\* C8: no metric computation divides by zero; cpa is spend / conversions
\* (to the two decimals reported) if conversions > 0, else 0; roas is
\* conversion_value / spend if spend > 0, else 0; ctr and cpm are 0 whenever
\* impressions = 0, whatever clicks and spend are.
C8_NoDivisionByZero ==
    Processed \/ pc = "raised" =>
        /\ data.exc # "ZeroDivisionError"
        /\ \A k \in DOMAIN data.rows :
              LET r == data.rows[k]
              IN  /\ IF r.conversions > 0
                     THEN IsNearest(r.cpa, r.spend, r.conversions)
                     ELSE r.cpa = 0
                  /\ IF r.spend > 0
                     THEN IsNearest(r.roas, 100 * r.conversion_value, r.spend)
                     ELSE r.roas = 0
                  /\ r.impressions = 0 => r.ctr = 0 /\ r.cpm = 0

\* a row of no impressions and no conversions, with clicks and spend
C8_Witness ==
    /\ pc = "processed"
    /\ \E k \in DOMAIN data.rows :
          /\ data.rows[k].impressions = 0
          /\ data.rows[k].clicks > 0
          /\ data.rows[k].spend > 0
          /\ data.rows[k].conversions = 0
          /\ data.rows[k].ctr = 0
          /\ data.rows[k].cpa = 0

\* C9: creative_type is "Video" whenever has_video is true, "Image" when
\* has_video is false and has_image is true, and "Unknown" otherwise; an ad
\* absent from the creative lookup gets creative_id = None and creative_type
\* = "Unknown", and its absence raises nothing.
C9_CreativeType ==
    /\ (Processed /\ data.exc = "none") =>
          \A k \in DOMAIN data.rows :
              LET ad == insights[k].ad_id
                  r  == data.rows[k]
              IN  IF ad \in DOMAIN creatives
                  THEN /\ creatives[ad].has_video => r.creative_type = "Video"
                       /\ ~creatives[ad].has_video /\ creatives[ad].has_image
                             => r.creative_type = "Image"
                       /\ ~creatives[ad].has_video /\ ~creatives[ad].has_image
                             => r.creative_type = "Unknown"
                  ELSE r.creative_id = None /\ r.creative_type = "Unknown"
    /\ (pc # "input" /\ \A k \in DOMAIN insights : InsightKeys \subseteq DOMAIN insights[k])
          => data.exc = "none"

\* one ad with a video and an image, another absent from the lookup
C9_Witness ==
    /\ pc = "processed"
    /\ Len(data.rows) = 2
    /\ insights[1].ad_id \in DOMAIN creatives
    /\ creatives[insights[1].ad_id].has_video
    /\ creatives[insights[1].ad_id].has_image
    /\ data.rows[1].creative_type = "Video"
    /\ insights[2].ad_id \notin DOMAIN creatives
    /\ data.rows[2].creative_type = "Unknown"

-----------------------------------------------------------------------------
(* Properties of main and of the insights fetch, under Spec *)

Terminated == pc \in {"done", "crashed"}

\* the paths for which save_to_csv returned True, in the order of the calls
WrittenPaths ==
    LET Ok(e) == e.ret
        ok == SelectSeq(exported, Ok)
    IN  [k \in DOMAIN ok |-> ok[k].path]

\* the rows of the first n pages received, in page order
RECURSIVE RowsOfPages(_, _)
RowsOfPages(resps, n) ==
    IF n = 0 THEN <<>> ELSE RowsOfPages(resps, n - 1) \o resps[n].data

\* C1: a write error raised while save_to_csv writes one account's report
\* does not end the run: main still fetches every account that comes after
\* the failing one.
C1_ExportFailureIsolated ==
    (Terminated /\ \E k \in DOMAIN exported : exported[k].exc = "OSError") =>
        visited = 1..Len(accounts)

\* C5: the list main hands to send_email_with_attachments is exactly the
\* list of paths for which save_to_csv reported a successful write, in
\* account order, and the email is dispatched if and only if that list is
\* non-empty.
C5_EmailedFiles ==
    Terminated =>
        /\ csv_files = WrittenPaths
        /\ \A k \in DOMAIN sent : sent[k] = WrittenPaths
        /\ sent # <<>> <=> WrittenPaths # <<>>

\* C10: in get_ad_creative_insights a request that raises at page k makes
\* the function return the empty list (main then skips the account), a page
\* body with "error" makes it return the rows of pages 1..k-1, in both cases
\* no page after k is requested, and with no failure the loop ends at the
\* first page without paging.next and returns the rows of all fetched pages
\* in page order.
C10_Pagination ==
    /\ pc = "fetch" =>
          /\ Len(responses) = page - 1
          /\ \A j \in DOMAIN responses :
                responses[j].kind = "data" /\ responses[j].next
    /\ pc = "check" =>
          LET k == Len(responses)
          IN  /\ k >= 1
              /\ k = page
              /\ \A j \in 1..(k - 1) : responses[j].kind = "data" /\ responses[j].next
              /\ responses[k].kind = "raise" => insights = <<>>
              /\ responses[k].kind = "error" => insights = RowsOfPages(responses, k - 1)
              /\ responses[k].kind = "data" =>
                    ~responses[k].next /\ insights = RowsOfPages(responses, k)
    /\ pc = "save" =>
          /\ insights # <<>>
          /\ responses[Len(responses)].kind # "raise"

\* the request for page 2 raised after page 1 had brought rows
C10_Witness ==
    /\ pc = "check"
    /\ Len(responses) = 2
    /\ responses[1].data # <<>>
    /\ responses[2].kind = "raise"
    /\ insights = <<>>

====
